---- MODULE Spec2Model ----
(***************************************************************************)
(* Model of vc_signal_bot.py: the aggregation-and-digest pipeline.         *)
(* One invocation of main() loads the persisted state, merges the          *)
(* candidates of every source, scores them, gates them on the ledger,      *)
(* queues the new ones, attempts the digest and saves the state with a     *)
(* write-temp-then-rename.                                                 *)
(*                                                                         *)
(* Representation.  A Python dict state is the record                      *)
(*   [seen, pending, last] = seen_items["vc_signals"], pending_signals,    *)
(*   last_digest_sent; a missing key is its default (empty list, None).    *)
(* seen_items["vc_signals"] is a list that the code only tests for         *)
(* membership and appends to when absent: it is kept as a set.             *)
(* Time is counted in units of 1/SubSecond second; isoformat(timespec=     *)
(* "seconds") drops the fraction of a second.                              *)
(***************************************************************************)
EXTENDS Integers, Sequences, FiniteSets, TLC

VARIABLES
    disk,        \* the canonical state file STATE_PATH
    tmp,         \* the temporary file STATE_PATH + ".tmp"
    mem,         \* the dict `state` of the running main()
    pc,          \* position of the process
    now,         \* the wall clock
    hits,        \* vc_hits of the running main()
    cg,          \* cg_names of the running main()
    queued,      \* [key, score, n] of the signals handed to queue_signal by the
                 \* running main(), n the number of corroborating sources
    flush,       \* outcome of send_digest_if_due in the running main()
    pre,         \* [pending, last, now] as send_digest_if_due found them
    delivered,   \* name keys contained in a digest whose delivery succeeded
    owed,        \* name keys queued and not contained in a successful digest since
    alerted,     \* the [key, score, n] queued by runs that saved their state
    calls,       \* bucket -> number of queue_signal calls in runs that saved,
                 \* for the buckets queued so far
    lastSig,     \* the signal of the last direct call of queue_signal
    probe,       \* the call under observation when one function is driven
                 \* directly: its inputs and its local variables
    runs         \* number of invocations so far

vars == <<disk, tmp, mem, pc, now, hits, cg, queued, flush, pre,
          delivered, owed, alerted, calls, lastSig, probe, runs>>

----------------------------------------------------------------------------
(* Bounds of the model *)

MaxRuns == 2
MaxCalls == 2
MaxTime == 90000
SubSecond == 2
SendDelay == 1

(* Program constants: the configuration read from the environment, at its *)
(* defaults, and the score weights.                                        *)

REQUIRE_MULTI_VC == TRUE
DIGEST_INTERVAL_HOURS == 4
SCORE_THRESHOLD == 8
W_vc_hit == 10
W_multi_vc == 8
W_has_link == 1
W_coingecko_presence == 2

NoTime == -1

Second == SubSecond
Window == DIGEST_INTERVAL_HOURS * 3600 * Second

----------------------------------------------------------------------------
(* Strings: str.lower, str.strip and Python's string order on the names    *)
(* the model uses.                                                         *)

Lower(s) ==
    CASE s = "Zeta" -> "zeta"
      [] s = "ZETA" -> "zeta"
      [] s = "Foo"  -> "foo"
      [] s = " Foo" -> " foo"
      [] s = "Foo Bar" -> "foo bar"
      [] s = "Foo  Bar" -> "foo  bar"
      [] s = "A decentralised liquidity network for every chain and asset class"
            -> "a decentralised liquidity network for every chain and asset class"
      [] s = "Portfolio" -> "portfolio"
      [] s = "Z" -> "z"
      [] OTHER      -> s

Strip(s) ==
    CASE s = " Foo" -> "Foo"
      [] s = " foo" -> "foo"
      [] OTHER      -> s

StrRank(s) ==
    CASE s = "A" -> 1
      [] s = "Animoca Brands Investments" -> 2
      [] s = "B" -> 3
      [] s = "Binance Labs Portfolio" -> 4
      [] s = "Dragonfly Portfolio" -> 5
      [] s = "Electric Capital Portfolio" -> 6
      [] s = "Framework Ventures Portfolio" -> 7
      [] s = "Hashed Portfolio" -> 8
      [] s = "Jump Crypto Portfolio" -> 9
      [] s = "Multicoin Capital Portfolio" -> 10
      [] s = "OKX Ventures Portfolio" -> 11
      [] s = "Pantera Capital Portfolio" -> 12
      [] s = "Paradigm Portfolio" -> 13
      [] s = "Polychain Capital Portfolio" -> 14
      [] s = "Wintermute Investments" -> 15
      [] s = "a16z Crypto Portfolio"  -> 16
      [] OTHER -> 17

Range(q) == {q[i] : i \in 1..Len(q)}

RECURSIVE SortedSeq(_)
SortedSeq(S) ==
    IF S = {} THEN <<>>
    ELSE LET m == CHOOSE x \in S : \A y \in S : StrRank(x) <= StrRank(y)
         IN  <<m>> \o SortedSeq(S \ {m})

Max(a, b) == IF a >= b THEN a ELSE b

Isoformat(t) == t - (t % Second)

----------------------------------------------------------------------------
(* The source registry: Source.name of the entries of VC_SOURCES, in        *)
(* registry order.                                                         *)

VC_SOURCES ==
    << "Binance Labs Portfolio", "a16z Crypto Portfolio", "Wintermute Investments",
       "Pantera Capital Portfolio", "Multicoin Capital Portfolio",
       "Polychain Capital Portfolio", "Paradigm Portfolio", "Dragonfly Portfolio",
       "Jump Crypto Portfolio", "Electric Capital Portfolio", "Hashed Portfolio",
       "Framework Ventures Portfolio", "Animoca Brands Investments",
       "OKX Ventures Portfolio" >>

None == "None"
Truthy(u) == u # None /\ u # ""

(* Inputs of a run.  A page is the list of the anchors of the document a   *)
(* source serves, each with its text (get_text(strip=True)) and its href   *)
(* (None without the attribute).  The hrefs u1, u2, u3 are absolute urls   *)
(* on a domain other than the page's: urljoin (line 254) returns them as   *)
(* they are and the own-domain rule (lines 256-259) does not apply.        *)

Names == {"Zeta", "ZETA", "Foo"}

Anchor(text, href) == [text |-> text, href |-> href]

Zeta1 == << Anchor("Zeta", "u1") >>
ZetaBare == << Anchor("ZETA", "") >>
Foo2 == << Anchor("Foo", "u2") >>

LongText == "A decentralised liquidity network for every chain and asset class"

Clutter ==
    << Anchor("Portfolio", "u3"), Anchor("Z", "u3"), Anchor("", "u3"),
       Anchor(LongText, "u3"), Anchor("Foo", None), Anchor("Foo", "#top"),
       Anchor("Foo  Bar", "u2"), Anchor("Zeta", "u1") >>

(* What a source answers in a run: the status of the response to each of  *)
(* the (at most MaxAttempts) requests, NoResponse when sess.get raises;    *)
(* the anchors of the body, and whether the parser raises on it.           *)

MaxAttempts == 3
NoResponse == 0
RetryStatus == {403, 429}

Ok(page) == [status |-> <<200, 200, 200>>, body |-> page, raises |-> FALSE]
Denied(page) == [status |-> <<403, 429, 403>>, body |-> page, raises |-> FALSE]
ServerError(page) == [status |-> <<500, 200, 200>>, body |-> page, raises |-> FALSE]
ParserRaises(page) == [status |-> <<200, 200, 200>>, body |-> page, raises |-> TRUE]

Quiet == Ok(<<>>)

(* The answers of the whole registry in a run: those of the sources that   *)
(* `some` names by their position, and an empty page from every other one. *)
Answers(some) ==
    [i \in 1..Len(VC_SOURCES) |-> IF i \in DOMAIN some THEN some[i] ELSE Quiet]

Pages ==
    (1 :> {Denied(Zeta1), Ok(Zeta1), Ok(ZetaBare), Ok(Foo2 \o Zeta1)})
    @@ (2 :> {Ok(Zeta1), Ok(Foo2)})
    @@ (5 :> {ParserRaises(Zeta1), Ok(Zeta1)})

PageChoices ==
    {Answers((1 :> a) @@ (2 :> b) @@ (5 :> e)) :
        a \in Pages[1], b \in Pages[2], e \in Pages[5]}

(* Smaller menus.  Runs around a damaged state file: *)
DamageChoices ==
    { Answers(<< Ok(Zeta1), Ok(Zeta1), ParserRaises(Zeta1) >>),
      Answers(<< Ok(Foo2), Ok(Foo2), ParserRaises(Zeta1) >>),
      Answers(<< Denied(Zeta1), ServerError(Zeta1), ParserRaises(Zeta1) >>) }

(* One project whose score moves: the CoinGecko list names it or not (or   *)
(* is unavailable), and it has two corroborating sources or, one of them   *)
(* failing, a single one.                                                  *)
GateChoices ==
    { Answers(<< Ok(Zeta1), Ok(Zeta1), ParserRaises(Zeta1) >>),
      Answers(<< Ok(Zeta1), ServerError(Zeta1), ParserRaises(Zeta1) >>) }

(* The first source of the registry serves the project with a url, in an   *)
(* anchor without href or with an empty one, or not at all.                *)
ZetaNoHref == << Anchor("Zeta", None) >>

LinkChoices ==
    {Answers((1 :> a) @@ (2 :> Ok(Zeta1)) @@ (3 :> c)) :
        a \in {Ok(Zeta1), Ok(ZetaBare), Ok(ZetaNoHref), Ok(ZetaBare \o Zeta1), Quiet},
        c \in {Ok(Zeta1), Quiet}}

(* Runs without a failing source, of at most one project each *)
LivePageChoices ==
    { Answers(<<>>),
      Answers(<< Ok(Zeta1), Ok(Zeta1) >>),
      Answers(<< Ok(Foo2), Ok(Foo2) >>) }

CoinLists == { {}, {"ZETA"} }

Fresh == [seen |-> {}, pending |-> <<>>, last |-> NoTime]

Absent == [kind |-> "absent", data |-> Fresh]
Partial == [kind |-> "partial", data |-> Fresh]
Complete(state) == [kind |-> "complete", data |-> state]

----------------------------------------------------------------------------
(* load_state *)

(* Mutant: whatever the file holds is taken as the state *)
load_state_lenient(file) ==
    IF file.kind = "absent" THEN Fresh ELSE file.data

load_state(file) ==
    IF file.kind = "absent" THEN Fresh
    ELSE IF file.kind = "partial" THEN Fresh   \* json.load raises
    ELSE file.data

(* generic_portfolio_parser, lines 240-260: the anchors that are skipped,   *)
(* and the (name, url) pairs collected from the others.                    *)

NoiseWords ==
    {"learn more", "portfolio", "read more", "apply", "about", "careers",
     "contact", "news"}

StartsWithHash(href) == href \in {"#", "#top"}

normalize_project_name(name) ==
    CASE name = "Foo  Bar" -> "Foo Bar"
      [] name = " Foo" -> "Foo"
      [] OTHER -> name

(* Mutant: an anchor is kept whatever its href *)
SkipAnchor_any_href(a) ==
    \/ ~Truthy(a.text)
    \/ Len(a.text) > 60 \/ Len(a.text) < 2
    \/ Lower(a.text) \in NoiseWords

SkipAnchor(a) ==
    \/ ~Truthy(a.href) \/ ~Truthy(a.text)
    \/ StartsWithHash(a.href)
    \/ Len(a.text) > 60 \/ Len(a.text) < 2
    \/ Lower(a.text) \in NoiseWords

RECURSIVE CollectItems(_)
CollectItems(anchors) ==
    IF anchors = <<>> THEN <<>>
    ELSE LET a == Head(anchors)
         IN  IF SkipAnchor(a) THEN CollectItems(Tail(anchors))
             ELSE <<[name |-> normalize_project_name(a.text), url |-> a.href]>>
                  \o CollectItems(Tail(anchors))

(* generic_portfolio_parser, lines 262-271: deduplicate by lower-cased name *)

RECURSIVE DedupByName(_, _)
DedupByName(items, seenKeys) ==
    IF items = <<>> THEN <<>>
    ELSE LET key == Lower(Head(items).name)
         IN  IF key \in seenKeys
             THEN DedupByName(Tail(items), seenKeys)
             ELSE <<Head(items)>> \o DedupByName(Tail(items), seenKeys \cup {key})

(* Mutant: the parser returns the items as collected *)
generic_portfolio_parser_no_dedup(html_text) == CollectItems(html_text)

generic_portfolio_parser(html_text) == DedupByName(CollectItems(html_text), {})

(* fetch_source_list, lines 296-307.  f is the call: the response r of the *)
(* source, the loop index i, the requests made, the delays slept (in units *)
(* of half a second), and the list returned once done.                     *)

FetchBegin(r) ==
    [r |-> r, i |-> 0, requests |-> 0, slept |-> <<>>, done |-> FALSE, result |-> <<>>]

FetchReturn(f, result) ==
    [f EXCEPT !.requests = @ + 1, !.done = TRUE, !.result = result]

(* Mutant: a refused request is retried whatever the attempt *)
FetchIter_retry_always(f) ==
    IF f.i >= MaxAttempts THEN [f EXCEPT !.done = TRUE, !.result = <<>>]
    ELSE LET st == f.r.status[f.i + 1]
         IN  IF st = NoResponse THEN FetchReturn(f, <<>>)
             ELSE IF st \in RetryStatus
             THEN [f EXCEPT !.i = @ + 1, !.requests = @ + 1,
                            !.slept = Append(@, 3 * (f.i + 1))]
             ELSE IF st >= 400 THEN FetchReturn(f, <<>>)
             ELSE IF f.r.raises THEN FetchReturn(f, <<>>)
             ELSE FetchReturn(f, generic_portfolio_parser(f.r.body))

(* One iteration of `for i in range(3)` *)
FetchIter(f) ==
    IF f.i >= MaxAttempts THEN [f EXCEPT !.done = TRUE, !.result = <<>>]
    ELSE LET st == f.r.status[f.i + 1]
         IN  IF st = NoResponse THEN FetchReturn(f, <<>>)
             ELSE IF st \in RetryStatus /\ f.i < MaxAttempts - 1
             THEN [f EXCEPT !.i = @ + 1, !.requests = @ + 1,
                            !.slept = Append(@, 3 * (f.i + 1))]
             ELSE IF st >= 400 THEN FetchReturn(f, <<>>)
             ELSE IF f.r.raises THEN FetchReturn(f, <<>>)
             ELSE FetchReturn(f, generic_portfolio_parser(f.r.body))

RECURSIVE FetchLoop(_)
FetchLoop(f) == IF f.done THEN f ELSE FetchLoop(FetchIter(f))

(* Mutant: without raise_for_status the body of an error answer is parsed *)
fetch_source_list_no_raise(r) ==
    IF \E k \in 1..MaxAttempts : r.status[k] = NoResponse \/ r.raises THEN <<>>
    ELSE generic_portfolio_parser(r.body)

fetch_source_list(r) == FetchLoop(FetchBegin(r)).result

(* main, lines 625-629: merge one candidate of source `src` into vc_hits.   *)
(* vc_hits is a sequence of entries in dict insertion order; an entry's     *)
(* sources is a sequence of [src, url] in dict insertion order.             *)

(* Mutant: the source map is a list of pairs that is appended to *)
SetSource_append(sources, src, url) == Append(sources, [src |-> src, url |-> url])

SetSource(sources, src, url) ==
    IF \E j \in 1..Len(sources) : sources[j].src = src
    THEN [j \in 1..Len(sources) |->
             IF sources[j].src = src THEN [src |-> src, url |-> url] ELSE sources[j]]
    ELSE Append(sources, [src |-> src, url |-> url])

MergeCandidate(h, src, c) ==
    LET key == Lower(c.name)
    IN  IF \E i \in 1..Len(h) : h[i].key = key
        THEN [i \in 1..Len(h) |->
                 IF h[i].key = key
                 THEN [key |-> key, display |-> c.name,
                       sources |-> SetSource(h[i].sources, src, c.url)]
                 ELSE h[i]]
        ELSE Append(h, [key |-> key, display |-> c.name,
                        sources |-> <<[src |-> src, url |-> c.url]>>])

RECURSIVE MergeSource(_, _, _)
MergeSource(h, src, projects) ==
    IF projects = <<>> THEN h
    ELSE MergeSource(MergeCandidate(h, src, Head(projects)), src, Tail(projects))

RECURSIVE MergeAll(_, _, _)
MergeAll(h, pages, i) ==
    IF i > Len(VC_SOURCES) THEN h
    ELSE MergeAll(MergeSource(h, VC_SOURCES[i], fetch_source_list(pages[i])), pages, i + 1)

(* main, lines 632-638 *)

CgNames(coins) == {Lower(nm) : nm \in {c \in coins : c # ""}}

----------------------------------------------------------------------------
(* score_project *)

(* Mutant: the link point goes to every url that is not None *)
score_project_not_none(name, url, tags, has_cg) ==
    (IF tags # <<>> THEN W_vc_hit + (IF Len(tags) >= 2 THEN W_multi_vc ELSE 0) ELSE 0)
    + (IF url # None THEN W_has_link ELSE 0)
    + (IF has_cg THEN W_coingecko_presence ELSE 0)

(* Mutant: W_multi_vc for every corroborating source beyond the first *)
score_project_per_source(name, url, tags, has_cg) ==
    (IF tags # <<>> THEN W_vc_hit + W_multi_vc * (Len(tags) - 1) ELSE 0)
    + (IF Truthy(url) THEN W_has_link ELSE 0)
    + (IF has_cg THEN W_coingecko_presence ELSE 0)

score_project(name, url, tags, has_cg) ==
    (IF tags # <<>>
     THEN W_vc_hit + (IF Len(tags) >= 2 THEN W_multi_vc ELSE 0)
     ELSE 0)
    + (IF Truthy(url) THEN W_has_link ELSE 0)
    + (IF has_cg THEN W_coingecko_presence ELSE 0)

(* Mutant: the ledger key is the name alone *)
Bucket_name_only(name_lc, score) == name_lc

Bucket(name_lc, score) == name_lc \o ":" \o ToString(score)

(* queue_signal *)

NameKey(name) == Strip(Lower(name))

(* Mutant: the merge takes the new score and appends the new tags *)
MergeInto_overwrite(s, sig) ==
    [name  |-> s.name,
     url   |-> IF ~Truthy(s.url) /\ Truthy(sig.url) THEN sig.url ELSE s.url,
     tags  |-> s.tags \o sig.tags,
     score |-> sig.score,
     ts    |-> s.ts]

MergeInto(s, sig) ==
    [name  |-> s.name,
     url   |-> IF ~Truthy(s.url) /\ Truthy(sig.url) THEN sig.url ELSE s.url,
     tags  |-> SortedSeq(Range(s.tags \o sig.tags)),
     score |-> Max(s.score, sig.score),
     ts    |-> s.ts]

(* Mutant: a signal with a new name is not appended *)
queue_signal_merge_only(state, sig, t) ==
    LET pending == state.pending
        key == NameKey(sig.name)
        found == {i \in 1..Len(pending) : NameKey(pending[i].name) = key}
    IN  IF found # {}
        THEN LET i == CHOOSE x \in found : \A y \in found : x <= y
             IN  [state EXCEPT !.pending[i] = MergeInto(pending[i], sig)]
        ELSE state

(* Mutant: the signal is appended without looking for its name *)
queue_signal_append(state, sig, t) ==
    [state EXCEPT !.pending =
        Append(@, [name |-> sig.name, url |-> sig.url, tags |-> sig.tags,
                   score |-> sig.score, ts |-> Isoformat(t)])]

(* Mutant: a signal with a new name replaces the pending list *)
queue_signal_reset(state, sig, t) ==
    LET pending == state.pending
        key == NameKey(sig.name)
        found == {i \in 1..Len(pending) : NameKey(pending[i].name) = key}
    IN  IF found # {}
        THEN LET i == CHOOSE x \in found : \A y \in found : x <= y
             IN  [state EXCEPT !.pending[i] = MergeInto(pending[i], sig)]
        ELSE [state EXCEPT !.pending =
                 <<[name |-> sig.name, url |-> sig.url, tags |-> sig.tags,
                    score |-> sig.score, ts |-> Isoformat(t)]>>]

queue_signal(state, sig, t) ==
    LET pending == state.pending
        key == NameKey(sig.name)
        found == {i \in 1..Len(pending) : NameKey(pending[i].name) = key}
    IN  IF found # {}
        THEN LET i == CHOOSE x \in found : \A y \in found : x <= y
             IN  [state EXCEPT !.pending[i] = MergeInto(pending[i], sig)]
        ELSE [state EXCEPT !.pending =
                 Append(pending, [name |-> sig.name, url |-> sig.url, tags |-> sig.tags,
                                  score |-> sig.score, ts |-> Isoformat(t)])]

(* Mutant: due only once more than the window has elapsed *)
should_send_digest_strict(state, t) ==
    IF state.pending = <<>> THEN FALSE
    ELSE IF state.last = NoTime THEN TRUE
    ELSE (t - state.last) > Window

(* should_send_digest.  last_digest_sent is only ever written by line 581,  *)
(* so datetime.fromisoformat (line 524) does not raise.                     *)

should_send_digest(state, t) ==
    IF state.pending = <<>> THEN FALSE
    ELSE IF state.last = NoTime THEN TRUE
    ELSE (t - state.last) >= Window

(* Mutant: a failed delivery clears the queue too *)
send_digest_if_due_drop(state, t, ok, d) ==
    IF state.pending = <<>> \/ (state.last # NoTime /\ (t - state.last) < Window) THEN state
    ELSE IF ok
         THEN [state EXCEPT !.last = Isoformat(t + d), !.pending = <<>>]
         ELSE [state EXCEPT !.pending = <<>>]

(* Mutant: last_digest_sent is recorded before the outcome is known *)
send_digest_if_due_stamp(state, t, ok, d) ==
    IF state.pending = <<>> \/ (state.last # NoTime /\ (t - state.last) < Window) THEN state
    ELSE IF ok
         THEN [state EXCEPT !.last = Isoformat(t + d), !.pending = <<>>]
         ELSE [state EXCEPT !.last = Isoformat(t + d)]

(* Mutant: a successful flush starts the state afresh *)
send_digest_if_due_forget(state, t, ok, d) ==
    IF state.pending = <<>> \/ (state.last # NoTime /\ (t - state.last) < Window) THEN state
    ELSE IF ok
         THEN [seen |-> {}, pending |-> <<>>, last |-> Isoformat(t + d)]
         ELSE state

(* send_digest_if_due: `ok` is what send_email_html returns, `d` the time   *)
(* the delivery took.                                                       *)

send_digest_if_due(state, t, ok, d) ==
    IF ~should_send_digest(state, t) THEN state
    ELSE IF ok
         THEN [state EXCEPT !.last = Isoformat(t + d), !.pending = <<>>]
         ELSE state

----------------------------------------------------------------------------
(* main, lines 642-667: the scoring loop over vc_hits.items().  acc is      *)
(* [state, queued]: the state dict and the signals handed to queue_signal;  *)
(* ts[i] is what the clock reads while the i-th entry is handled, the time  *)
(* queue_signal stamps on the item it appends for it (line 513).            *)

FirstLink(entry) == entry.sources[1].url
Tags(entry) == [j \in 1..Len(entry.sources) |-> entry.sources[j].src]

(* Mutant: the corroboration filter is off *)
PassesMulti_off(tags, m) == TRUE

PassesMulti(tags, m) == ~(m /\ Len(tags) < 2)

(* Mutant: the gate opens for a score above every recorded one only *)
Gate_improvement(bucket, seen_src) ==
    /\ bucket \notin seen_src
    /\ ~\E key \in {"zeta", "foo"}, s1, s2 \in 0..(W_vc_hit + W_multi_vc + W_has_link + W_coingecko_presence) :
          /\ bucket = Bucket(key, s1)
          /\ Bucket(key, s2) \in seen_src
          /\ s2 > s1

(* Mutant: the ledger is not consulted *)
Gate_open(bucket, seen_src) == TRUE

Gate(bucket, seen_src) == bucket \notin seen_src

ScoreEntry(acc, entry, cgn, m, t) ==
    LET tags == Tags(entry)
        first_link == FirstLink(entry)
        has_cg == entry.key \in cgn
        score == score_project(entry.display, first_link, tags, has_cg)
        bucket == Bucket(entry.key, score)
    IN  IF ~PassesMulti(tags, m) THEN acc
        ELSE IF score >= SCORE_THRESHOLD /\ Gate(bucket, acc.state.seen)
        THEN [state  |-> queue_signal(
                             [acc.state EXCEPT !.seen = @ \cup {bucket}],
                             [name |-> entry.display, url |-> first_link,
                              tags |-> tags, score |-> score], t),
              queued |-> acc.queued \cup
                             {[key |-> entry.key, score |-> score, n |-> Len(tags)]}]
        ELSE acc

RECURSIVE ScoreLoop(_, _, _, _, _)
ScoreLoop(acc, h, cgn, m, ts) ==
    IF h = <<>> THEN acc
    ELSE ScoreLoop(ScoreEntry(acc, Head(h), cgn, m, Head(ts)), Tail(h), cgn, m, Tail(ts))

----------------------------------------------------------------------------
(* The state machine *)

ScoreRange == 0..(W_vc_hit + W_multi_vc + W_has_link + W_coingecko_presence)

Delays == {Window - Second - SendDelay, Window - SendDelay}
SendDelays == {SendDelay}

(* The time that passes between two entries of the scoring loop *)
Lags == {0, Second}

(* The clock readings of a scoring loop over n entries that starts at t *)
Readings(n, t, lag) == [i \in 1..n |-> t + (i - 1) * lag]

PendingKeys(state) == {NameKey(state.pending[i].name) : i \in 1..Len(state.pending)}

NoPre == [pending |-> <<>>, last |-> NoTime, now |-> 0]
NoSig == [name |-> "", url |-> None, tags |-> <<>>, score |-> 0]
NoProbe == [op |-> "none"]

Init ==
    /\ disk = Absent
    /\ tmp = Absent
    /\ mem = Fresh
    /\ pc = "idle"
    /\ now = 0
    /\ hits = <<>>
    /\ cg = {}
    /\ queued = {}
    /\ flush = "none"
    /\ pre = NoPre
    /\ delivered = {}
    /\ owed = {}
    /\ alerted = {}
    /\ calls = [b \in {} |-> 0]
    /\ lastSig = NoSig
    /\ probe = NoProbe
    /\ runs = 0

(* main, lines 615-616 and 631-667: load the state, build cg_names, score  *)
(* and queue the entries of vc_hits `h`; the clock stands at its last       *)
(* reading when send_digest_if_due is called.                               *)
Scan(h, coins, lag) ==
    LET cgn == CgNames(coins)
        ts == Readings(Len(h), now, lag)
        acc == ScoreLoop([state |-> load_state(disk), queued |-> {}], h, cgn,
                         REQUIRE_MULTI_VC, ts)
    IN  /\ now' = IF h = <<>> THEN now ELSE ts[Len(h)]
        /\ now' <= MaxTime
        /\ mem' = acc.state
        /\ hits' = h
        /\ cg' = cgn
        /\ queued' = acc.queued
        /\ owed' = owed \cup {q.key : q \in acc.queued}
        /\ flush' = "none"
        /\ pre' = NoPre
        /\ pc' = "digest"

(* main, lines 620-629: vc_hits as the loop over VC_SOURCES builds it from  *)
(* the answers `pages`, for the answers of every menu                      *)
vc_hits ==
    [pages \in PageChoices \cup DamageChoices \cup GateChoices \cup LinkChoices
                \cup LivePageChoices |-> MergeAll(<<>>, pages, 1)]

(* One invocation of main() up to line 667, on answers drawn from          *)
(* `choices`: vc_hits is merged from the answers of the registry and       *)
(* scanned.  An observed invocation keeps what the sources answered.       *)
RunMainOn(choices, counted, observed) ==
    /\ pc = "idle"
    /\ runs' = IF counted THEN runs + 1 ELSE runs
    /\ \E pages \in choices :
          LET h == vc_hits[pages]
          IN  /\ \E coins \in CoinLists, lag \in Lags : Scan(h, coins, lag)
              /\ probe' = IF observed THEN [op |-> "main", resps |-> pages] ELSE probe
    /\ UNCHANGED <<disk, tmp, delivered, alerted, calls, lastSig>>

RunMain(choices, counted) == RunMainOn(choices, counted, FALSE)

RunScan ==
    /\ runs < MaxRuns
    /\ RunMain(PageChoices, TRUE)

(* Mutant: a digest that was sent is recorded in the state file at once *)
Digest_saving(ok, d, outcome) ==
    /\ pc = "digest"
    /\ mem' = send_digest_if_due(mem, now, ok, d)
    /\ disk' = IF outcome = "sent" THEN Complete(mem') ELSE disk
    /\ pre' = [pending |-> mem.pending, last |-> mem.last, now |-> now]
    /\ flush' = outcome
    /\ now + d <= MaxTime
    /\ now' = now + d
    /\ delivered' = IF outcome = "sent" THEN delivered \cup PendingKeys(mem) ELSE delivered
    /\ owed' = IF outcome = "sent" THEN owed \ PendingKeys(mem) ELSE owed
    /\ hits' = <<>>
    /\ cg' = {}
    /\ pc' = "save"
    /\ UNCHANGED <<tmp, queued, alerted, calls, lastSig, probe, runs>>

(* main, line 670: send_digest_if_due, by its three outcomes *)
Digest(ok, d, outcome) ==
    /\ pc = "digest"
    /\ mem' = send_digest_if_due(mem, now, ok, d)
    /\ pre' = [pending |-> mem.pending, last |-> mem.last, now |-> now]
    /\ flush' = outcome
    /\ now + d <= MaxTime
    /\ now' = now + d
    /\ delivered' = IF outcome = "sent" THEN delivered \cup PendingKeys(mem) ELSE delivered
    /\ owed' = IF outcome = "sent" THEN owed \ PendingKeys(mem) ELSE owed
    /\ hits' = <<>>
    /\ cg' = {}
    /\ pc' = "save"
    /\ UNCHANGED <<disk, tmp, queued, alerted, calls, lastSig, probe, runs>>

DigestNotDue ==
    /\ ~should_send_digest(mem, now)
    /\ Digest(FALSE, 0, "notdue")

DigestSentIn(ds) ==
    /\ should_send_digest(mem, now)
    /\ \E d \in ds : Digest(TRUE, d, "sent")

DigestFailedIn(ds) ==
    /\ should_send_digest(mem, now)
    /\ \E d \in ds : Digest(FALSE, d, "failed")

DigestSent == DigestSentIn(SendDelays)

DigestFailed == DigestFailedIn(SendDelays)

(* Mutant: save_state opens the state file itself for writing *)
SaveOpen_in_place ==
    /\ pc = "save"
    /\ disk' = Partial
    /\ pc' = "tmp_open"
    /\ UNCHANGED <<tmp, mem, now, hits, cg, queued, flush, pre,
                   delivered, owed, alerted, calls, lastSig, probe, runs>>

(* save_state, line 109: open(tmp, "w") truncates the temporary file *)
SaveOpen ==
    /\ pc = "save"
    /\ tmp' = Partial
    /\ pc' = "tmp_open"
    /\ UNCHANGED <<disk, mem, now, hits, cg, queued, flush, pre,
                   delivered, owed, alerted, calls, lastSig, probe, runs>>

(* save_state, line 110: json.dump and the close of the with block *)
SaveDump ==
    /\ pc = "tmp_open"
    /\ tmp' = Complete(mem)
    /\ pc' = "tmp_done"
    /\ UNCHANGED <<disk, mem, now, hits, cg, queued, flush, pre,
                   delivered, owed, alerted, calls, lastSig, probe, runs>>

(* save_state, line 111: os.replace(tmp, STATE_PATH); main returns *)
SaveReplace ==
    /\ pc = "tmp_done"
    /\ disk' = tmp
    /\ tmp' = Absent
    /\ alerted' = alerted \cup queued
    /\ calls' = LET new == {Bucket(q.key, q.score) : q \in queued}
                 IN  [b \in DOMAIN calls \cup new |->
                         (IF b \in DOMAIN calls THEN calls[b] ELSE 0)
                         + (IF b \in new THEN 1 ELSE 0)]
    /\ mem' = Fresh
    /\ queued' = {}
    /\ pc' = "sleep"
    /\ UNCHANGED <<now, hits, cg, flush, pre, delivered, owed, lastSig, probe, runs>>

(* The process stops inside main(): its memory is lost, the files stay.    *)
(* Nothing reads the temporary file before line 109 truncates it again, so *)
(* of a file left behind only the kind (partial, complete) is kept.        *)
Crash ==
    /\ pc \in {"digest", "save", "tmp_open", "tmp_done"}
    /\ tmp' = [kind |-> tmp.kind, data |-> Fresh]
    /\ mem' = Fresh
    /\ hits' = <<>>
    /\ cg' = {}
    /\ queued' = {}
    /\ flush' = "crashed"
    /\ pre' = NoPre
    /\ pc' = "sleep"
    /\ UNCHANGED <<disk, now, delivered, owed, alerted, calls, lastSig, probe, runs>>

(* lines 684-686 and 615-641: the time from the end of an invocation to    *)
(* the scoring loop of the next, time.sleep(POLL_INTERVAL) and what the     *)
(* requests and the retry sleeps of the next invocation take.               *)
SleepFor(ds) ==
    /\ pc = "sleep"
    /\ \E d \in ds : now + d <= MaxTime /\ now' = now + d
    /\ flush' = "none"
    /\ pre' = NoPre
    /\ pc' = "idle"
    /\ UNCHANGED <<disk, tmp, mem, hits, cg, queued,
                   delivered, owed, alerted, calls, lastSig, probe, runs>>

Sleep == SleepFor(Delays)

Next ==
    \/ RunScan
    \/ DigestNotDue
    \/ DigestSent
    \/ DigestFailed
    \/ SaveOpen
    \/ SaveDump
    \/ SaveReplace
    \/ Crash
    \/ Sleep

Spec == Init /\ [][Next]_vars

----------------------------------------------------------------------------
(* The state file damaged between two runs: what is left of its content is *)
(* no JSON document, and json.load raises on it.                           *)

Damage ==
    /\ pc = "sleep"
    /\ probe.op = "none"
    /\ disk.kind = "complete"
    /\ disk' = [kind |-> "partial", data |-> disk.data]
    /\ probe' = [op |-> "damage"]
    /\ UNCHANGED <<tmp, mem, pc, now, hits, cg, queued, flush, pre,
                   delivered, owed, alerted, calls, lastSig, runs>>

RunScanC ==
    /\ runs < MaxRuns
    /\ RunMain(DamageChoices, TRUE)

NextC ==
    \/ RunScanC
    \/ DigestNotDue
    \/ DigestSent
    \/ DigestFailed
    \/ SaveOpen
    \/ SaveDump
    \/ SaveReplace
    \/ Crash
    \/ Sleep
    \/ Damage

SpecC == Init /\ [][NextC]_vars

----------------------------------------------------------------------------
(* One more run than MaxRuns on the one project of GateChoices *)

RunScanG ==
    /\ runs < MaxRuns + 1
    /\ RunMain(GateChoices, TRUE)

NextG ==
    \/ RunScanG
    \/ DigestNotDue
    \/ DigestSent
    \/ DigestFailed
    \/ SaveOpen
    \/ SaveDump
    \/ SaveReplace
    \/ Crash
    \/ Sleep

SpecG == Init /\ [][NextG]_vars

----------------------------------------------------------------------------
(* Observed runs on the answers of LinkChoices *)

RunScanL ==
    /\ runs < MaxRuns
    /\ RunMainOn(LinkChoices, TRUE, TRUE)

NextL ==
    \/ RunScanL
    \/ DigestNotDue
    \/ DigestSent
    \/ DigestFailed
    \/ SaveOpen
    \/ SaveDump
    \/ SaveReplace
    \/ Crash
    \/ Sleep

SpecL == Init /\ [][NextL]_vars

----------------------------------------------------------------------------
(* Runs for the liveness of delivery: main() is invoked again and again on *)
(* a small menu of inputs, every step of a live process is eventually      *)
(* taken, a delivery that is attempted again and again eventually          *)
(* succeeds, and time passes.  A crash is never required.  The clock is    *)
(* followed up to MaxTime; a run may follow the previous one within the    *)
(* same clock reading (POLL_INTERVAL_SECONDS=0, line 63), which is how     *)
(* runs keep occurring at the last reading the model follows.              *)

RunScanLive == RunMain(LivePageChoices, FALSE)

DigestSentLive == DigestSentIn({0})

DigestFailedLive == DigestFailedIn({0})

CrashLive == Crash

(* The next scoring loop reads the clock a whole window later *)
Tick == SleepFor({Window})

(* ... or within the same reading, and then finds the digest not yet due *)
SleepLive == SleepFor({0, Window})

Progress ==
    \/ RunScanLive
    \/ DigestNotDue
    \/ DigestSentLive
    \/ DigestFailedLive
    \/ SaveOpen
    \/ SaveDump
    \/ SaveReplace
    \/ SleepLive

NextLive ==
    \/ Progress
    \/ CrashLive

LiveSpec ==
    /\ Init
    /\ [][NextLive]_vars
    /\ WF_vars(Progress)
    /\ SF_vars(DigestSentLive)
    /\ SF_vars(Tick)

----------------------------------------------------------------------------
(* queue_signal applied directly to signals drawn from a small set *)

Signals ==
    [name  : {"Foo", "foo", " Foo", "Zeta"},
     url   : {None, "u1", "u2"},
     tags  : {<<"A">>, <<"B">>, <<"B", "A">>},
     score : {8, 9}]

InitQ == Init

QueueDirectIn(sigs, ds) ==
    /\ pc = "idle"
    /\ runs < MaxCalls
    /\ runs' = runs + 1
    /\ \E s \in sigs, d \in ds :
          /\ now + d <= MaxTime
          /\ now' = now + d
          /\ lastSig' = s
          /\ pre' = [pending |-> mem.pending, last |-> mem.last, now |-> now']
          /\ mem' = queue_signal(mem, s, now')
    /\ UNCHANGED <<disk, tmp, pc, hits, cg, queued, flush,
                   delivered, owed, alerted, calls, probe>>

QueueDirect == QueueDirectIn(Signals, {0, Second})

NextQ == QueueDirect

SpecQ == InitQ /\ [][NextQ]_vars

(* queue_signal and send_digest_if_due driven directly, in any order *)

FlushDirect ==
    /\ pc = "idle"
    /\ mem.pending # <<>>
    /\ \E ok \in BOOLEAN :
          /\ mem' = send_digest_if_due(mem, now, ok, 0)
          /\ flush' = IF ~should_send_digest(mem, now) THEN "notdue"
                       ELSE IF ok THEN "sent" ELSE "failed"
    /\ pre' = [pending |-> mem.pending, last |-> mem.last, now |-> now]
    /\ lastSig' = NoSig
    /\ UNCHANGED <<disk, tmp, pc, now, hits, cg, queued,
                   delivered, owed, alerted, calls, probe, runs>>

QueueDirectSome ==
    QueueDirectIn({s \in Signals : s.url # "u2" /\ Len(s.tags) = 1}, {0})

NextQF == QueueDirectSome \/ FlushDirect

SpecQF == InitQ /\ [][NextQF]_vars

----------------------------------------------------------------------------
(* score_project driven directly, on every combination of a name, a url   *)
(* (None, empty or not), a list of corroborating sources and the flag.    *)

OnlyProbe ==
    UNCHANGED <<disk, tmp, mem, pc, now, hits, cg, queued, flush, pre,
                delivered, owed, alerted, calls, lastSig, runs>>

(* list(source_map.keys()): source names in registry order, from the      *)
(* first or the second entry on                                            *)
TagLists ==
    {SubSeq(VC_SOURCES, i, j) : i \in {1, 2}, j \in 0..Len(VC_SOURCES)}

Urls == {None, "", "u1", "u2"}

ScoreDirect ==
    /\ \E name \in Names, url \in Urls, tags \in TagLists, has_cg \in BOOLEAN :
          probe' = [op |-> "score", name |-> name, url |-> url, tags |-> tags,
                    has_cg |-> has_cg,
                    score |-> score_project(name, url, tags, has_cg)]
    /\ OnlyProbe

NextS == ScoreDirect

SpecS == Init /\ [][NextS]_vars

----------------------------------------------------------------------------
(* fetch_source_list driven directly, one request at a time, on every      *)
(* sequence of answers of the source.  A live call takes its next step.    *)

Statuses == {NoResponse, 200, 403, 429, 500}

FetchResponses ==
    [status : [1..MaxAttempts -> Statuses], body : {Zeta1, Zeta1 \o Foo2, Clutter},
     raises : BOOLEAN]

FetchStart ==
    /\ probe.op = "none" \/ (probe.op = "fetch" /\ probe.f.done)
    /\ \E r \in FetchResponses : probe' = [op |-> "fetch", f |-> FetchBegin(r)]
    /\ OnlyProbe

FetchStep ==
    /\ probe.op = "fetch"
    /\ ~probe.f.done
    /\ probe' = [probe EXCEPT !.f = FetchIter(@)]
    /\ OnlyProbe

NextF == FetchStart \/ FetchStep

SpecF == Init /\ [][NextF]_vars /\ WF_vars(FetchStep)

----------------------------------------------------------------------------
(* main, lines 620-629, driven directly: vc_hits built from the answers of *)
(* the registry, over failures of every kind and bodies that repeat a      *)
(* name.                                                                   *)

DupZeta == << Anchor("Zeta", "u1"), Anchor("ZETA", "u3") >>

NoAnswer(page) == [status |-> <<NoResponse, 200, 200>>, body |-> page, raises |-> FALSE]

MergeResponses ==
    (1 :> {Ok(Zeta1), Ok(DupZeta), ServerError(Foo2), Denied(Zeta1)})
    @@ (2 :> {Ok(Zeta1), Ok(DupZeta), Ok(Foo2 \o Zeta1), NoAnswer(Foo2)})
    @@ (3 :> {Quiet, Ok(Zeta1), Ok(ZetaBare \o Zeta1), ParserRaises(Zeta1)})
    @@ (Len(VC_SOURCES) :> {Quiet, Ok(Zeta1), ServerError(Zeta1)})

MergeDirect ==
    /\ \E a \in MergeResponses[1], b \in MergeResponses[2], c \in MergeResponses[3],
          z \in MergeResponses[Len(VC_SOURCES)] :
        LET resps == Answers((1 :> a) @@ (2 :> b) @@ (3 :> c) @@ (Len(VC_SOURCES) :> z))
        IN  /\ hits' = MergeAll(<<>>, resps, 1)
            /\ probe' = [op |-> "merge", resps |-> resps]
    /\ UNCHANGED <<disk, tmp, mem, pc, now, cg, queued, flush, pre,
                   delivered, owed, alerted, calls, lastSig, runs>>

(* main, lines 625-629, for one source whose parser returned `projects`:  *)
(* Source.parser is any callable, and the loop takes its list as it is.   *)

CandidateLists ==
    { CollectItems(Zeta1), CollectItems(DupZeta), CollectItems(Foo2 \o DupZeta),
      << [name |-> "Zeta", url |-> "u1"], [name |-> "Foo", url |-> "u2"],
         [name |-> "Zeta", url |-> "u3"] >> }

MergeListDirect ==
    /\ probe.op \in {"none", "merge"}
    /\ \E i \in {1, 2, Len(VC_SOURCES)}, projects \in CandidateLists :
          /\ hits' = MergeSource(hits, VC_SOURCES[i], projects)
          /\ probe' = [op |-> "mergelist", src |-> i, projects |-> projects]
    /\ UNCHANGED <<disk, tmp, mem, pc, now, cg, queued, flush, pre,
                   delivered, owed, alerted, calls, lastSig, runs>>

NextM == MergeDirect \/ MergeListDirect

SpecM == Init /\ [][NextM]_vars

----------------------------------------------------------------------------
(* Properties *)

Keys == {Lower(n) : n \in Names}

Loaded == load_state(disk)

(* The due condition as the specification words it *)
DueSpec(pending, last, t) ==
    pending # <<>> /\ (last = NoTime \/ t - last >= Window)

(* What main computes for an entry of vc_hits in the running invocation *)
EntryScore(e) == score_project(e.display, FirstLink(e), Tags(e), e.key \in cg)
Qualifies(e) == PassesMulti(Tags(e), REQUIRE_MULTI_VC) /\ EntryScore(e) >= SCORE_THRESHOLD
QueuedKeys == {q.key : q \in queued}

(* C1: a bucket (lower-cased name, score) is handed to queue_signal at most *)
(* once over the runs that saved their state, and a run that finds the key  *)
(* 'name:score' in the loaded ledger queues nothing for that bucket.        *)
C1_BucketQueuedOnce ==
    /\ \A b \in DOMAIN calls : calls[b] <= 1
    /\ pc = "digest" =>
          \A q \in queued : Bucket(q.key, q.score) \notin Loaded.seen

(* A later run computes a bucket that an earlier run recorded and queues    *)
(* nothing for it.                                                          *)
C1_Witness ==
    /\ pc = "digest"
    /\ \E i \in 1..Len(hits) :
          /\ Qualifies(hits[i])
          /\ Bucket(hits[i].key, EntryScore(hits[i])) \in Loaded.seen
          /\ Bucket(hits[i].key, EntryScore(hits[i])) \in DOMAIN calls
          /\ hits[i].key \notin QueuedKeys

(* C2, as claimed: every item ever placed in pending_signals is eventually  *)
(* contained in a digest whose delivery succeeded.                          *)
C2_QueuedEventuallyDelivered ==
    \A k \in Keys :
        (k \in PendingKeys(mem) /\ k \in owed /\ now + Window <= MaxTime) ~> (k \notin owed)

(* C2, amended: every item of the persisted pending_signals is eventually   *)
(* contained in a digest whose delivery succeeded (while the clock of the   *)
(* model can still reach the end of the window).                            *)
C2_PersistedEventuallyDelivered ==
    \A k \in Keys :
        (k \in PendingKeys(disk.data) /\ k \in owed /\ now + Window <= MaxTime)
            ~> (k \notin owed)

(* An item that was persisted as pending, whose delivery then failed, has   *)
(* been delivered by a later run.                                           *)
C2_Witness ==
    /\ pc = "save"
    /\ flush = "sent"
    /\ pre.last # NoTime
    /\ "zeta" \in PendingKeys(disk.data)
    /\ "zeta" \notin owed

(* C3: after a flush whose delivery failed, pending_signals and             *)
(* last_digest_sent are what send_digest_if_due found, in memory until the  *)
(* end of the run and in the state file once the run has saved.             *)
C3_FailedFlushKeepsQueue ==
    /\ (flush = "failed" /\ pc \in {"save", "tmp_open", "tmp_done"}) =>
          (mem.pending = pre.pending /\ mem.last = pre.last)
    /\ (flush = "failed" /\ pc = "sleep") =>
          /\ disk.kind = "complete"
          /\ disk.data.pending = pre.pending
          /\ disk.data.last = pre.last

(* A run whose delivery failed with two items pending has saved its state.  *)
C3_Witness ==
    /\ pc = "sleep"
    /\ flush = "failed"
    /\ Len(pre.pending) = 2
    /\ disk.data.pending = pre.pending

InRun == {"digest", "save", "tmp_open", "tmp_done"}

(* C4: items leave pending_signals and last_digest_sent changes only in a   *)
(* flush that was due and whose delivery succeeded; after it the queue is   *)
(* empty and last_digest_sent is the flush time.  The scan of a run keeps   *)
(* every loaded item, and the state file loses items only by saving the     *)
(* state of a run whose flush succeeded.                                    *)
C4_ClearedOnlyBySuccess ==
    [][ /\ (pc = "idle" /\ pc' = "digest") =>
              /\ PendingKeys(Loaded) \subseteq PendingKeys(mem')
              /\ mem'.last = Loaded.last
        /\ (pc \in InRun /\ pc' \in InRun
              /\ (~(PendingKeys(mem) \subseteq PendingKeys(mem')) \/ mem'.last # mem.last)) =>
              /\ pc = "digest"
              /\ DueSpec(mem.pending, mem.last, now)
              /\ flush' = "sent"
              /\ mem'.pending = <<>>
              /\ mem'.last = Isoformat(now')
        /\ (~(PendingKeys(disk.data) \subseteq PendingKeys(disk'.data))
              \/ disk'.data.last # disk.data.last) =>
              /\ flush = "sent"
              /\ disk'.data.pending = <<>>
              /\ disk'.data.last = mem.last
      ]_vars

(* A flush that was due has succeeded: the queue is empty and               *)
(* last_digest_sent is the flush time.                                      *)
C4_Witness ==
    /\ pc = "save"
    /\ flush = "sent"
    /\ Len(pre.pending) = 2
    /\ mem.pending = <<>>
    /\ mem.last = Isoformat(now)

(* C5: should_send_digest is true exactly when pending_signals is not empty *)
(* and no last_digest_sent is recorded or now - last_digest_sent >= W; the  *)
(* flush decision of every run is that one; it is false one second before   *)
(* T + W and true at T + W.                                                 *)
C5_DueExactlyWhenWindowElapsed ==
    /\ should_send_digest(mem, now) = DueSpec(mem.pending, mem.last, now)
    /\ (pc = "save" /\ pre.pending = <<>>) => flush = "notdue"
    /\ (pc = "save" /\ pre.pending # <<>> /\ pre.last = NoTime) => flush # "notdue"
    /\ (pc = "save" /\ pre.pending # <<>> /\ pre.last # NoTime) =>
          (flush = "notdue" <=> pre.now - pre.last < Window)
    /\ (mem.pending # <<>> /\ mem.last # NoTime /\ now = mem.last + Window - Second) =>
          ~should_send_digest(mem, now)
    /\ (mem.pending # <<>> /\ mem.last # NoTime /\ now = mem.last + Window) =>
          should_send_digest(mem, now)

(* A flush was attempted exactly W after the recorded flush time T.         *)
C5_Witness ==
    /\ pc = "save"
    /\ flush \in {"sent", "failed"}
    /\ pre.last # NoTime
    /\ pre.now = pre.last + Window

(* One second before: the queue is not empty and the digest is not due.     *)
C5_WitnessBelow ==
    /\ pc = "save"
    /\ flush = "notdue"
    /\ pre.pending # <<>>
    /\ pre.now = pre.last + Window - Second

(* C6: with REQUIRE_MULTI_VC, a project in the candidate list of exactly    *)
(* one source is not queued and gets no ledger key in that run.             *)
C6_SingleSourceNeverQueued ==
    (REQUIRE_MULTI_VC /\ pc = "digest") =>
        \A i \in 1..Len(hits) :
            Len(hits[i].sources) = 1 =>
                /\ hits[i].key \notin QueuedKeys
                /\ \A sc \in ScoreRange :
                      Bucket(hits[i].key, sc) \in mem.seen =>
                          Bucket(hits[i].key, sc) \in Loaded.seen

(* A single-source project with a url and auxiliary presence was scanned    *)
(* while another project of the same run was queued.                        *)
C6_Witness ==
    /\ REQUIRE_MULTI_VC
    /\ pc = "digest"
    /\ queued # {}
    /\ \E i \in 1..Len(hits) :
          /\ Len(hits[i].sources) = 1
          /\ Truthy(FirstLink(hits[i]))
          /\ hits[i].key \in cg

(* The score of entry e had it two corroborating sources only *)
ScoreWithTwo(e) ==
    score_project(e.display, FirstLink(e), SubSeq(Tags(e), 1, 2), e.key \in cg)

GainedThird(e) ==
    /\ Len(e.sources) = 3
    /\ [key |-> e.key, score |-> ScoreWithTwo(e), n |-> 2] \in alerted

(* C7, as claimed: a project alerted with two sources that has a third one  *)
(* in a later run, url and auxiliary presence unchanged, has a higher       *)
(* score and is queued again.                                               *)
C7_ThirdSourceRequeues ==
    pc = "digest" =>
        \A i \in 1..Len(hits) :
            GainedThird(hits[i]) =>
                /\ EntryScore(hits[i]) > ScoreWithTwo(hits[i])
                /\ hits[i].key \in QueuedKeys

(* C7, amended: its score is the same, no new bucket key is recorded and    *)
(* it is not queued again.                                                  *)
C7_ThirdSourceSameBucket ==
    pc = "digest" =>
        \A i \in 1..Len(hits) :
            GainedThird(hits[i]) =>
                /\ EntryScore(hits[i]) = ScoreWithTwo(hits[i])
                /\ hits[i].key \notin QueuedKeys
                /\ \A sc \in ScoreRange :
                      Bucket(hits[i].key, sc) \in mem.seen =>
                          Bucket(hits[i].key, sc) \in Loaded.seen

C7_Witness ==
    /\ pc = "digest"
    /\ \E i \in 1..Len(hits) : GainedThird(hits[i])

(* C8: a project recorded in the ledger at score s that qualifies in a      *)
(* later run with a higher score s' not yet recorded passes the gate: the   *)
(* key 'name:s'' is added and the project is handed to queue_signal.        *)
RecordedAt(k, sc) == \E a \in alerted : a.key = k /\ a.score = sc

Improved(e) ==
    /\ Qualifies(e)
    /\ ~RecordedAt(e.key, EntryScore(e))
    /\ \E sc \in ScoreRange : sc < EntryScore(e) /\ RecordedAt(e.key, sc)

C8_HigherScorePassesGate ==
    pc = "digest" =>
        \A i \in 1..Len(hits) :
            Improved(hits[i]) =>
                /\ Bucket(hits[i].key, EntryScore(hits[i])) \in mem.seen
                /\ Bucket(hits[i].key, EntryScore(hits[i])) \notin Loaded.seen
                /\ [key |-> hits[i].key, score |-> EntryScore(hits[i]),
                    n |-> Len(hits[i].sources)] \in queued

C8_Witness ==
    /\ pc = "digest"
    /\ \E i \in 1..Len(hits) : Improved(hits[i])

(* C9: queue_signal on a signal whose lower-cased trimmed name is that of   *)
(* a pending item adds no item; that item's tags become the sorted union,   *)
(* its score the max, its url is kept if it had one and is the new url      *)
(* otherwise, its name and timestamp are unchanged and the other items are  *)
(* untouched.  A signal with a new name is appended with the current time.  *)
(* {Foo, [A], 8} then {foo, [B], 9} gives one item, tags [A, B], score 9.   *)
StrictlySorted(q) == \A i \in 1..(Len(q) - 1) : StrRank(q[i]) < StrRank(q[i + 1])

HasUrl(x) == x.url \notin {None, ""}

MatchesOf(pending, name) ==
    {i \in 1..Len(pending) : Strip(Lower(pending[i].name)) = Strip(Lower(name))}

MergedAsSpecified(old, new, s) ==
    /\ new.name = old.name
    /\ new.ts = old.ts
    /\ Range(new.tags) = Range(old.tags) \cup Range(s.tags)
    /\ StrictlySorted(new.tags)
    /\ new.score >= old.score /\ new.score >= s.score
    /\ new.score \in {old.score, s.score}
    /\ HasUrl(old) => new.url = old.url
    /\ (~HasUrl(old) /\ HasUrl(s)) => new.url = s.url
    /\ (~HasUrl(old) /\ ~HasUrl(s)) => ~HasUrl(new)

C9_QueueSignalMerge ==
    runs >= 1 =>
        LET old == pre.pending
            new == mem.pending
            hit == MatchesOf(old, lastSig.name)
        IN  /\ hit # {} =>
                  /\ Len(new) = Len(old)
                  /\ \A i \in 1..Len(old) :
                        IF i \in hit THEN MergedAsSpecified(old[i], new[i], lastSig)
                        ELSE new[i] = old[i]
            /\ hit = {} =>
                  /\ Len(new) = Len(old) + 1
                  /\ SubSeq(new, 1, Len(old)) = old
                  /\ new[Len(new)] = [name |-> lastSig.name, url |-> lastSig.url,
                                      tags |-> lastSig.tags, score |-> lastSig.score,
                                      ts |-> Isoformat(now)]
            /\ (/\ Len(old) = 1
                /\ old[1].name = "Foo" /\ old[1].tags = <<"A">> /\ old[1].score = 8
                /\ lastSig.name = "foo" /\ lastSig.tags = <<"B">> /\ lastSig.score = 9) =>
                  /\ Len(new) = 1
                  /\ new[1].tags = <<"A", "B">>
                  /\ new[1].score = 9

(* {Foo, [A], 8} without url was pending since an earlier second, then      *)
(* {foo, [B], 9} with url u2 was queued.                                    *)
C9_Witness ==
    /\ Len(pre.pending) = 1
    /\ pre.pending[1] = [name |-> "Foo", url |-> None, tags |-> <<"A">>, score |-> 8,
                         ts |-> 0]
    /\ lastSig = [name |-> "foo", url |-> "u2", tags |-> <<"B">>, score |-> 9]
    /\ now = Second
    /\ mem.pending = <<[name |-> "Foo", url |-> "u2", tags |-> <<"A", "B">>, score |-> 9,
                        ts |-> 0]>>

(* C10: the canonical state file changes only by the rename of the          *)
(* completely written temporary file over it; it is never partial, and      *)
(* while the temporary file is being written, or after a stop before the    *)
(* rename, it is the previous complete version.                             *)
C10_AtomicReplace ==
    [][ /\ disk'.kind # "partial"
        /\ disk' # disk =>
              /\ pc = "tmp_done"
              /\ pc' = "sleep"
              /\ tmp = Complete(mem)
              /\ disk' = Complete(mem)
      ]_vars

(* The process stopped after writing the temporary file and before the      *)
(* rename: the state file is the complete version of the run before.        *)
C10_Witness ==
    /\ pc = "sleep"
    /\ flush = "crashed"
    /\ tmp.kind = "complete"
    /\ disk.kind = "complete"
    /\ disk.data.pending # <<>>

----------------------------------------------------------------------------
(* C11: the ledger only grows.  The keys of the state file are kept by      *)
(* every step; the run starts from the keys it loaded, and no step of the   *)
(* run (queueing, merge, flush success or failure, save) removes one.       *)
C11_LedgerOnlyGrows ==
    [][ /\ disk.data.seen \subseteq disk'.data.seen
        /\ (pc = "idle" /\ pc' = "digest") => Loaded.seen \subseteq mem'.seen
        /\ (pc \in InRun /\ pc' \in InRun) => mem.seen \subseteq mem'.seen
      ]_vars

(* Two runs have recorded a key each, and the digest of the first was sent  *)
C11_Witness ==
    /\ pc = "sleep"
    /\ flush = "notdue"
    /\ Cardinality(disk.data.seen) >= 2
    /\ delivered # {}

----------------------------------------------------------------------------
(* The additive formula of the specification, on the number of sources,    *)
(* the presence of a url and the auxiliary-presence flag.                   *)
ReferenceScore(n, has_url, has_cg) ==
    (IF n >= 1 THEN 10 ELSE 0) + (IF n >= 2 THEN 8 ELSE 0)
    + (IF has_url THEN 1 ELSE 0) + (IF has_cg THEN 2 ELSE 0)

(* C12: score_project returns the additive formula on every input, so the  *)
(* score depends on the number of sources, the presence of a url and the    *)
(* flag only; two sources with a url and no auxiliary presence give 19.     *)
C12_ScoreIsReferenceFormula ==
    probe.op = "score" =>
        /\ probe.score = ReferenceScore(Len(probe.tags), HasUrl(probe), probe.has_cg)
        /\ (Len(probe.tags) = 2 /\ HasUrl(probe) /\ ~probe.has_cg) => probe.score = 19

(* score_project was called with two sources, a url and no flag *)
C12_Witness ==
    /\ probe.op = "score"
    /\ Len(probe.tags) = 2
    /\ probe.url = "u1"
    /\ ~probe.has_cg
    /\ probe.score = 19

----------------------------------------------------------------------------
(* What one request of a running call must lead to, by the status st of its *)
(* answer: a retry after 1.5 x attempt seconds (3 x attempt half seconds)   *)
(* exactly when st is 403 or 429 and fewer than 3 attempts have been made,  *)
(* and otherwise the end of the call, with the parsed list on success and   *)
(* the empty list on every failure.                                         *)
FetchStepAsSpecified(f, g) ==
    LET attempt == f.requests + 1
        st == f.r.status[attempt]
        retry == st \in {403, 429} /\ attempt < 3
    IN  /\ g.requests = attempt
        /\ g.done = ~retry
        /\ g.slept = IF retry THEN Append(f.slept, 3 * attempt) ELSE f.slept
        /\ g.done => g.result = IF st = 200 /\ ~f.r.raises
                                  THEN generic_portfolio_parser(f.r.body)
                                  ELSE <<>>

(* C13: a call of fetch_source_list makes at most 3 requests, retries only  *)
(* on 403 or 429 before the third attempt, after a delay of 1.5 x attempt,  *)
(* ends at once on any other failure, and always terminates with a list.    *)
C13_FetchBoundedRetry ==
    /\ [](probe.op = "fetch" => probe.f.requests <= 3 /\ Len(probe.f.slept) <= 2)
    /\ [][(probe.op = "fetch" /\ ~probe.f.done) =>
              FetchStepAsSpecified(probe.f, probe'.f)]_vars
    /\ ((probe.op = "fetch" /\ ~probe.f.done) ~> (probe.op = "fetch" /\ probe.f.done))

(* A call was refused twice, slept 1.5 s and 3 s, and got the page at the   *)
(* third request.                                                           *)
C13_Witness ==
    /\ probe.op = "fetch"
    /\ probe.f.done
    /\ probe.f.r.status = <<403, 429, 200>>
    /\ probe.f.requests = 3
    /\ probe.f.slept = <<3, 6>>
    /\ probe.f.result = <<[name |-> "Zeta", url |-> "u1"]>>

----------------------------------------------------------------------------
(* The answer that ends a call of fetch_source_list, and whether the call   *)
(* failed: an answer other than 200, no answer, or a parser that raises.    *)
FinalStatus(r) ==
    IF r.status[1] \notin {403, 429} THEN r.status[1]
    ELSE IF r.status[2] \notin {403, 429} THEN r.status[2]
    ELSE r.status[3]

FetchFailed(r) == FinalStatus(r) # 200 \/ r.raises

SourcesOf(e) == {e.sources[j].src : j \in 1..Len(e.sources)}

(* The signals a fresh state queues for the records h *)
SignalsOf(h) ==
    ScoreLoop([state |-> Fresh, queued |-> {}], h, {}, REQUIRE_MULTI_VC,
              Readings(Len(h), 0, 0)).state.pending

(* C14: a source whose fetch or parse fails contributes no candidate, every *)
(* name on a page that was fetched is merged under its source, and the      *)
(* records and signals are those of a run in which the failing source       *)
(* answered with an empty page.                                             *)
C14_FailureIsolated ==
    probe.op = "merge" =>
        \A i \in 1..Len(VC_SOURCES) :
            FetchFailed(probe.resps[i]) =>
                LET emptied == MergeAll(<<>>, [probe.resps EXCEPT ![i] = Ok(<<>>)], 1)
                IN  /\ \A k \in 1..Len(hits) : VC_SOURCES[i] \notin SourcesOf(hits[k])
                    /\ \A j \in 1..Len(VC_SOURCES) :
                          ~FetchFailed(probe.resps[j]) =>
                              \A c \in Range(CollectItems(probe.resps[j].body)) :
                                  \E k \in 1..Len(hits) :
                                      /\ hits[k].key = Lower(c.name)
                                      /\ VC_SOURCES[j] \in SourcesOf(hits[k])
                    /\ hits = emptied
                    /\ SignalsOf(hits) = SignalsOf(emptied)

(* The first source answered with an error status, and the other two were   *)
(* merged into a record that makes a signal.                                *)
C14_Witness ==
    /\ probe.op = "merge"
    /\ probe.resps[1] = ServerError(Foo2)
    /\ probe.resps[2] = Ok(Zeta1)
    /\ probe.resps[3] = Ok(Zeta1)
    /\ Len(hits) = 1
    /\ Len(SignalsOf(hits)) = 1

----------------------------------------------------------------------------
(* C15: every record of vc_hits holds one url per source name, its list of  *)
(* source names has no duplicates and no two records share a key, whatever  *)
(* names a candidate list repeats; merging the same candidate list of the   *)
(* same source again changes nothing.                                       *)
C15_OneUrlPerSource ==
    /\ \A k \in 1..Len(hits) :
          /\ \A a, b \in 1..Len(hits[k].sources) :
                hits[k].sources[a].src = hits[k].sources[b].src => a = b
          /\ \A a, b \in 1..Len(Tags(hits[k])) :
                Tags(hits[k])[a] = Tags(hits[k])[b] => a = b
          /\ \A l \in 1..Len(hits) : hits[k].key = hits[l].key => k = l
    /\ probe.op = "mergelist" =>
          MergeSource(hits, VC_SOURCES[probe.src], probe.projects) = hits

(* A list naming Zeta twice, in two casings, was merged for a source that   *)
(* was already in the record of zeta.                                       *)
C15_Witness ==
    /\ probe.op = "mergelist"
    /\ probe.projects = CollectItems(DupZeta)
    /\ \E k \in 1..Len(hits) :
          /\ hits[k].key = "zeta"
          /\ Len(hits[k].sources) >= 2
          /\ hits[k].sources[1].src = VC_SOURCES[probe.src]

----------------------------------------------------------------------------
(* The positions of a lower-cased name in a list of candidates, the names   *)
(* a list holds more than once with different urls, and the url a record    *)
(* of vc_hits holds for a source.                                           *)
Occurrences(items, key) == {n \in 1..Len(items) : Lower(items[n].name) = key}

First(S) == CHOOSE n \in S : \A m \in S : n <= m
Last(S) == CHOOSE n \in S : \A m \in S : n >= m

(* The pairs the content of an answer names, as collected (line 260) *)
Named(r) == CollectItems(r.body)

RepeatedKeys(items) ==
    {key \in Keys : \E a, b \in Occurrences(items, key) : items[a].url # items[b].url}

RecordedUrl(h, key, src) ==
    LET e == h[CHOOSE k \in 1..Len(h) : h[k].key = key]
    IN  e.sources[CHOOSE j \in 1..Len(e.sources) : e.sources[j].src = src].url

(* C16, as claimed: when the content of a source names a project more than *)
(* once with different urls, the record holds the last-seen url for that    *)
(* source.                                                                  *)
C16_LastSeenUrlWins ==
    probe.op = "merge" =>
        \A i \in 1..Len(VC_SOURCES) :
            ~FetchFailed(probe.resps[i]) =>
                \A key \in RepeatedKeys(Named(probe.resps[i])) :
                    RecordedUrl(hits, key, VC_SOURCES[i]) =
                        Named(probe.resps[i])[Last(Occurrences(Named(probe.resps[i]), key))].url

(* C16, amended: of a name that the content of a source repeats, the        *)
(* parser keeps the first-seen pair, and the record holds the first-seen    *)
(* url for that source; the merge itself gives the last-seen url of a       *)
(* candidate list that repeats a name.                                      *)
C16_FirstSeenUrlKept ==
    /\ probe.op = "merge" =>
          \A i \in 1..Len(VC_SOURCES) :
              ~FetchFailed(probe.resps[i]) =>
                  \A key \in RepeatedKeys(Named(probe.resps[i])) :
                      RecordedUrl(hits, key, VC_SOURCES[i]) =
                          Named(probe.resps[i])[First(Occurrences(Named(probe.resps[i]), key))].url
    /\ probe.op = "mergelist" =>
          \A key \in RepeatedKeys(probe.projects) :
              RecordedUrl(hits, key, VC_SOURCES[probe.src]) =
                  probe.projects[Last(Occurrences(probe.projects, key))].url

(* The second source's page named Zeta twice, with u1 and then u3, and the  *)
(* record of zeta holds u1 for it.                                          *)
C16_Witness ==
    /\ probe.op = "merge"
    /\ probe.resps[2] = Ok(DupZeta)
    /\ RecordedUrl(hits, "zeta", VC_SOURCES[2]) = "u1"

(* A candidate list naming Zeta twice was merged, and the record holds u3   *)
C16_WitnessList ==
    /\ probe.op = "mergelist"
    /\ probe.projects = CollectItems(DupZeta)
    /\ RecordedUrl(hits, "zeta", VC_SOURCES[probe.src]) = "u3"

----------------------------------------------------------------------------
(* C17: a run that finds the state file unreadable starts from an empty     *)
(* ledger, no pending item and no last_digest_sent, so that after its scan  *)
(* the state holds what this run queued and nothing else; the run goes on,  *)
(* and its save leaves a complete state file holding its final state.       *)
C17_CorruptStateStartsAfresh ==
    /\ [](disk.kind = "partial" =>
             /\ Loaded = Fresh
             /\ pc = "digest" =>
                   /\ mem.seen = {Bucket(q.key, q.score) : q \in queued}
                   /\ PendingKeys(mem) = QueuedKeys
                   /\ mem.last = NoTime)
    /\ [][(disk.kind = "partial" /\ pc = "tmp_done" /\ pc' = "sleep" /\ flush' # "crashed") =>
              disk' = Complete(mem)]_vars

(* A run has saved its state over a damaged file that held another key     *)
C17_Witness ==
    /\ probe.op = "damage"
    /\ pc = "sleep"
    /\ disk.kind = "complete"
    /\ disk.data.seen # {}
    /\ \E q \in alerted : Bucket(q.key, q.score) \notin disk.data.seen

----------------------------------------------------------------------------
(* The item of the queue for a name key, and whether a source of a record   *)
(* supplied a url.                                                          *)
PendingItem(state, key) ==
    state.pending[CHOOSE i \in 1..Len(state.pending) : NameKey(state.pending[i].name) = key]

AnySourceUrl(e) == \E j \in 1..Len(e.sources) : Truthy(e.sources[j].url)

(* Whether the page a source served names the project in an anchor whose   *)
(* href is missing or empty.                                               *)
ServedWithoutUrl(r, key) ==
    /\ ~FetchFailed(r)
    /\ \E n \in 1..Len(r.body) : Lower(r.body[n].text) = key /\ ~Truthy(r.body[n].href)

(* C18: a signal queued for a project of which a source supplied a url      *)
(* carries a url and has the has_link point in its score, also when the     *)
(* first source in registry order served the project without a url.        *)
C18_AnyUrlCounts ==
    pc = "digest" =>
        \A k \in 1..Len(hits) :
            (hits[k].key \in QueuedKeys /\ AnySourceUrl(hits[k])) =>
                /\ \E q \in queued :
                      /\ q.key = hits[k].key
                      /\ q.score = ReferenceScore(q.n, TRUE, hits[k].key \in cg)
                /\ hits[k].key \notin PendingKeys(Loaded) =>
                      HasUrl(PendingItem(mem, hits[k].key))

(* The first source served ZETA in an anchor with an empty href and        *)
(* nothing else, two later sources supplied a url, and the signal was       *)
(* queued with a url and the has_link point.                                *)
C18_Witness ==
    /\ pc = "digest"
    /\ probe.op = "main"
    /\ probe.resps[1] = Ok(ZetaBare)
    /\ ServedWithoutUrl(probe.resps[1], "zeta")
    /\ "zeta" \in QueuedKeys
    /\ HasUrl(PendingItem(mem, "zeta"))
    /\ \E q \in queued : q.key = "zeta" /\ q.score = 19

----------------------------------------------------------------------------
(* C19: the tags of every item of pending_signals, appended or merged, are  *)
(* the corroborating source names in sorted order, without duplicates.      *)
C19_TagsSorted ==
    \A i \in 1..Len(mem.pending) :
        /\ StrictlySorted(mem.pending[i].tags)
        /\ Range(mem.pending[i].tags) \subseteq Range(VC_SOURCES)

----------------------------------------------------------------------------
(* C20: a run writes the state file once, in its last step.  The scan and   *)
(* the flush attempt touch neither the state file nor the temporary file;   *)
(* the state file changes only in the rename that ends save_state, after    *)
(* the flush attempt, and what it then holds (ledger, queue and             *)
(* last_digest_sent) is the state dict of the run at that moment.           *)
C20_SavedOnceAtEnd ==
    [][ /\ disk' # disk => (pc = "tmp_done" /\ pc' = "sleep")
        /\ (pc \in {"idle", "digest"} /\ pc' \in InRun) => (disk' = disk /\ tmp' = tmp)
        /\ (pc = "tmp_done" /\ pc' = "sleep" /\ flush' # "crashed") =>
              /\ flush \in {"sent", "failed", "notdue"}
              /\ disk' = Complete(mem)
      ]_vars

(* A run that queued a signal and sent the digest has saved: the file holds *)
(* the key, an empty queue and the time of the flush.                       *)
C20_Witness ==
    /\ pc = "sleep"
    /\ flush = "sent"
    /\ disk.kind = "complete"
    /\ disk.data.seen # {}
    /\ disk.data.pending = <<>>
    /\ disk.data.last # NoTime

----------------------------------------------------------------------------
(* C21: no two items of pending_signals have the same lower-cased trimmed   *)
(* name, after any sequence of queue_signal calls and flushes.              *)
C21_PendingNamesUnique ==
    \A i, j \in 1..Len(mem.pending) :
        Strip(Lower(mem.pending[i].name)) = Strip(Lower(mem.pending[j].name)) => i = j

(* "Foo" was queued, the flush failed, and " Foo" was queued and merged     *)
C21_Witness ==
    /\ Len(mem.pending) = 1
    /\ mem.pending[1].name = "Foo"
    /\ lastSig.name = " Foo"
    /\ flush = "failed"

----------------------------------------------------------------------------
(* C22: the ledger of the state file holds the keys of the signals queued   *)
(* by the runs that saved, and the project of each of them is in the queue  *)
(* of the state file or was in a digest whose delivery succeeded, at every  *)
(* moment, also after a run that stopped before save_state completed.       *)
C22_LedgerKeysAccounted ==
    /\ disk.data.seen = {Bucket(q.key, q.score) : q \in alerted}
    /\ \A q \in alerted :
          q.key \in PendingKeys(disk.data) \/ q.key \in delivered

(* A run stopped before its save while the state file held a key whose      *)
(* project is queued there and was never delivered.                         *)
C22_Witness ==
    /\ flush = "crashed"
    /\ disk.data.seen # {}
    /\ \E q \in alerted : q.key \in PendingKeys(disk.data) /\ q.key \notin delivered

----------------------------------------------------------------------------
(* The scores the loaded ledger holds for a name key *)
LoadedScores(key) == {sc \in ScoreRange : Bucket(key, sc) \in Loaded.seen}

(* C23: the gate tests whether the score is new for the project, not        *)
(* whether it is higher: a qualifying project is queued in a run exactly    *)
(* when its bucket is not in the loaded ledger, be its score below or above *)
(* the recorded ones, and no bucket is queued twice by the runs that saved. *)
C23_GateTestsInequality ==
    /\ pc = "digest" =>
          \A i \in 1..Len(hits) :
              Qualifies(hits[i]) =>
                  (hits[i].key \in QueuedKeys
                      <=> EntryScore(hits[i]) \notin LoadedScores(hits[i].key))
    /\ \A b \in DOMAIN calls : calls[b] <= 1

(* A project whose recorded scores are all higher than its present score    *)
(* is queued again.                                                         *)
C23_Witness ==
    /\ pc = "digest"
    /\ \E i \in 1..Len(hits) :
          /\ Qualifies(hits[i])
          /\ LoadedScores(hits[i].key) # {}
          /\ \A sc \in LoadedScores(hits[i].key) : sc > EntryScore(hits[i])
          /\ hits[i].key \in QueuedKeys

(* A project whose score is back at a recorded value, a lower one having    *)
(* been recorded as well, is not queued.                                    *)
C23_WitnessReturn ==
    /\ pc = "digest"
    /\ runs = 3
    /\ \E i \in 1..Len(hits) :
          /\ Qualifies(hits[i])
          /\ EntryScore(hits[i]) \in LoadedScores(hits[i].key)
          /\ \E sc \in LoadedScores(hits[i].key) : sc < EntryScore(hits[i])
          /\ hits[i].key \notin QueuedKeys

====
